---- MODULE Spec2Model ----
(***************************************************************************)
(* mov2seqimg: Mov2SeqImg.convert cuts still images out of a video and     *)
(* geotags them from a GPX track (src/mov2seqimg/mov2seqimg.py).           *)
(*                                                                         *)
(* Python floats are modelled as exact rationals <<n, d>> (d > 0, lowest   *)
(* terms).  pandas Timedelta values are whole nanoseconds, kept as         *)
(* [sec, ns].  A list attribute that is not set yet is the empty sequence. *)
(* The print statements, the duration warning and the debug plot change no *)
(* state and are left out.  _extract_images is stepped one row at a time;  *)
(* each of its rows can end in an ffmpeg or a piexif exception.            *)
(***************************************************************************)
EXTENDS Integers, Sequences, FiniteSets, TLC

VARIABLES
    video,              \* self.total_frames, self.total_duration, self.fps
    gps_data,           \* self.gps_data: rows [rel_time, lat, lon, ele]
    args,               \* the arguments of convert()
    start_time,         \* self.start_time
    end_time,           \* self.end_time
    time_interval,      \* self.time_interval
    clip_fps,           \* self.clip_fps
    frame_list,         \* self.frame_list: rows [frame_num, time_stamp]
    merged_frame_list,  \* self.merged_frame_list
    pc,                 \* position inside convert()
    err,                \* the exception that ended convert(), or "None"
    i,                  \* rows of merged_frame_list already iterated
    files,              \* the output directory: file name -> exif
    written,            \* file names written by _extract_images in this run
    calls,              \* the ffmpeg/interpolant calls made, per list position
    loaded,             \* what piexif.load returned in the last tagged iteration
    run,                \* 1: first convert(), 2: the same convert() again
    files1,             \* the output directory when the first run finished
    enc_in,             \* encoder harness: the coordinates to encode
    enc_out             \* encoder harness: the GPS tags produced

vars == <<video, gps_data, args, start_time, end_time, time_interval, clip_fps,
          frame_list, merged_frame_list, pc, err, i, files, written, calls,
          loaded, run, files1, enc_in, enc_out>>

\* None where a float is expected: no rational has denominator 0
None == <<0, 0>>
\* no exception
NoError == "None"

-----------------------------------------------------------------------------
(* Bounds of the model *)

\* convert() is called with start_time in -1..MaxTime-1 and end_time in 0..MaxTime
MaxTime == 3
\* convert() is called with fps in -1..MaxFps (and 1000), time_interval 1/k, k <= MaxFps+1
MaxFps == 3
\* the encoder harness encodes coordinates with whole degrees 0, 35 and 89..88+MaxDeg
MaxDeg == 1

-----------------------------------------------------------------------------
(* Exact rational arithmetic standing for float arithmetic *)

RECURSIVE Gcd(_, _)
Gcd(a, b) == IF b = 0 THEN a ELSE Gcd(b, a % b)

IAbs(n) == IF n < 0 THEN -n ELSE n

R(n, d) ==
    LET s == IF d < 0 THEN -1 ELSE 1
        g == Gcd(IAbs(n), IAbs(d))
    IN  <<(s * n) \div g, (s * d) \div g>>

RI(n) == <<n, 1>>
RAdd(a, b) == R(a[1] * b[2] + b[1] * a[2], a[2] * b[2])
RSub(a, b) == R(a[1] * b[2] - b[1] * a[2], a[2] * b[2])
RMul(a, b) == IF a[1] = 0 \/ b[1] = 0 THEN <<0, 1>> ELSE R(a[1] * b[1], a[2] * b[2])
RDiv(a, b) == R(a[1] * b[2], a[2] * b[1])
RLt(a, b) == a[1] * b[2] < b[1] * a[2]
RLe(a, b) == a[1] * b[2] <= b[1] * a[2]
RAbs(a) == <<IAbs(a[1]), a[2]>>
RMin(a, b) == IF RLe(a, b) THEN a ELSE b
RMax(a, b) == IF RLe(a, b) THEN b ELSE a
\* floor, ceiling, and int(): truncation toward zero
RFloor(a) == a[1] \div a[2]
RCeil(a) == -((-a[1]) \div a[2])
RTrunc(a) == IF a[1] >= 0 THEN a[1] \div a[2] ELSE -((-a[1]) \div a[2])

-----------------------------------------------------------------------------
(* GeoTag encoding: latlon_to_rational, ele_to_rational and the tag writes *)

\* the denominator of the seconds rational
SecDen == 100000
\* the denominator of the altitude rational
EleDen == 1000

\* a slip: the seconds are rounded to nearest instead of truncated
latlon_to_rational_round(latlon) ==
    LET m == RAbs(latlon)
        deg == RTrunc(m)
        mn == RTrunc(RMul(RSub(m, RI(deg)), RI(60)))
        s == RMul(RMul(RSub(RMul(RSub(m, RI(deg)), RI(60)), RI(mn)), RI(60)), RI(SecDen))
    IN  <<<<deg, 1>>, <<mn, 1>>, <<RFloor(RAdd(s, R(1, 2))), SecDen>>>>

latlon_to_rational(latlon) ==
    LET m == RAbs(latlon)
        deg == RTrunc(m)
        mn == RTrunc(RMul(RSub(m, RI(deg)), RI(60)))
        sec == RTrunc(RMul(RMul(RSub(RMul(RSub(m, RI(deg)), RI(60)), RI(mn)),
                                RI(60)), RI(SecDen)))
    IN  <<<<deg, 1>>, <<mn, 1>>, <<sec, SecDen>>>>

ele_to_rational(ele) == <<RTrunc(RMul(ele, RI(EleDen))), EleDen>>

\* the five piexif.GPSIFD tags _extract_images assigns
GpsTagNames == {"GPSLatitude", "GPSLatitudeRef", "GPSLongitude", "GPSLongitudeRef",
                "GPSAltitude"}

\* the values assigned to exif["GPS"] for one row
GpsTags(lat, lon, ele) ==
    [t \in GpsTagNames |->
        CASE t = "GPSLatitude" -> latlon_to_rational(lat)
          [] t = "GPSLatitudeRef" -> IF RLe(RI(0), lat) THEN "N" ELSE "S"
          [] t = "GPSLongitude" -> latlon_to_rational(lon)
          [] t = "GPSLongitudeRef" -> IF RLe(RI(0), lon) THEN "E" ELSE "W"
          [] t = "GPSAltitude" -> ele_to_rational(ele)]

\* a slip: the GPS IFD is replaced instead of updated, the 0th IFD is dropped
TagExif_replace(exif, lat, lon, ele) ==
    [zeroth |-> <<>>, GPS |-> GpsTags(lat, lon, ele)]

\* exif["GPS"][tag] = value for the five tags; everything else as loaded
TagExif(exif, lat, lon, ele) ==
    [exif EXCEPT !.GPS =
        [t \in (DOMAIN exif.GPS) \cup GpsTagNames |->
            IF t \in GpsTagNames THEN GpsTags(lat, lon, ele)[t] ELSE exif.GPS[t]]]

-----------------------------------------------------------------------------
(* Frame sampling helpers: np.arange, np.clip, np.int64, pd.to_timedelta *)

\* np.arange(start, stop, step): ceil((stop - start) / step) values, none if <= 0
arange(start, stop, step) ==
    LET n == RCeil(RDiv(RSub(stop, start), step))
    IN  [k \in 1..(IF n > 0 THEN n ELSE 0) |-> RAdd(start, RMul(RI(k - 1), step))]

\* a slip: only the upper bound is applied
clip_upper(x, lo, hi) == RMin(x, hi)

\* np.clip(x, lo, hi)
clip(x, lo, hi) == RMin(RMax(x, lo), hi)

\* np.int64(x): truncation toward zero
int64(x) == RTrunc(x)

\* nanoseconds per second: the resolution of a pandas Timedelta
NsPerSec == 1000000000

\* r * NsPerSec = q * d + rem for 0 <= r < d, by long division in two steps
LongDivNs(r, d) ==
    LET a == r * 100000
        b == (a % d) * (NsPerSec \div 100000)
    IN  [q |-> (a \div d) * (NsPerSec \div 100000) + (b \div d), rem |-> b % d]

\* round(r / d * NsPerSec) for 0 <= r < d, halves to even
FracNs(r, d) ==
    LET fl == LongDivNs(r, d).q
        rem == LongDivNs(r, d).rem
    IN  IF 2 * rem > d \/ (2 * rem = d /\ fl % 2 = 1) THEN fl + 1 ELSE fl

\* pd.to_timedelta(x, unit = 's') for a float x >= 0: whole seconds plus the
\* fraction rounded to whole nanoseconds
to_timedelta(x) ==
    LET base == RTrunc(x)
        ns == FracNs(x[1] - base * x[2], x[2])
    IN  IF ns = NsPerSec THEN [sec |-> base + 1, ns |-> 0] ELSE [sec |-> base, ns |-> ns]

\* Timedelta.total_seconds()
total_seconds(td) == RAdd(RI(td.sec), R(td.ns, NsPerSec))

-----------------------------------------------------------------------------
(* Track interpolation: scipy.interpolate.interp1d(kind = 'quadratic',      *)
(* fill_value = 'extrapolate') over three fixes is the parabola through     *)
(* them, here in Newton form.                                               *)

interp1d(x, y, t) ==
    LET d01 == RDiv(RSub(y[2], y[1]), RSub(x[2], x[1]))
        d12 == RDiv(RSub(y[3], y[2]), RSub(x[3], x[2]))
        d012 == RDiv(RSub(d12, d01), RSub(x[3], x[1]))
    IN  RAdd(y[1], RMul(RSub(t, x[1]), RAdd(d01, RMul(RSub(t, x[2]), d012))))

Column(rows, c) == [k \in 1..Len(rows) |-> rows[k][c]]

-----------------------------------------------------------------------------
(* The videos, tracks and convert() arguments the model runs on *)

\* ffmpeg.probe results: a 2 fps video whose frame count matches its duration,
\* a 3 fps video one frame short of its duration, and a single-frame video
Video2 == [fps |-> RI(2), total_frames |-> 2 * MaxTime, total_duration |-> RI(MaxTime)]
Video3 == [fps |-> RI(3), total_frames |-> 5, total_duration |-> RI(2)]
Video1 == [fps |-> RI(2), total_frames |-> 1, total_duration |-> R(1, 2)]

\* gpx tracks: a moving one that crosses the 0 meridian and sea level, a
\* stationary one at latitude 35.6895, and one with too few points to interpolate
TrackMove == << [rel_time |-> RI(0), lat |-> RI(10), lon |-> RI(-1), ele |-> RI(5)],
                [rel_time |-> RI(1), lat |-> RI(11), lon |-> RI(0), ele |-> R(3, 2)],
                [rel_time |-> RI(2), lat |-> RI(13), lon |-> RI(2), ele |-> RI(-2)] >>
TrackConst == [k \in 1..3 |->
                [rel_time |-> RI(k - 1), lat |-> R(356895, 10000), lon |-> R(-559, 4),
                 ele |-> R(123456, 1000)]]
TrackShort == SubSeq(TrackMove, 1, 2)

Scenarios == { <<Video2, TrackMove>>, <<Video2, TrackShort>>,
               <<Video3, TrackConst>>, <<Video1, TrackConst>> }

StartTimes == {None, R(1, 2)} \cup {RI(k) : k \in -1..(MaxTime - 1)}
EndTimes == {None, R(3, 2)} \cup {RI(k) : k \in 0..(MaxTime + 1)}
FpsArgs == {None, RI(1000)} \cup {RI(k) : k \in -1..MaxFps}
TimeIntervals == {None, RI(-1), RI(0), RI(2), R(2, 3)} \cup {R(1, k) : k \in 1..(MaxFps + 1)}

Args == { a \in [start_time : StartTimes, end_time : EndTimes,
                 time_interval : TimeIntervals, fps : FpsArgs] :
            a.time_interval = None \/ a.fps \in {None, RI(1)} }

\* self.mov_file_path.stem
Stem == "GS040002"

-----------------------------------------------------------------------------
(* convert() *)

\* the state of a fresh Mov2SeqImg whose convert() has not run
Fresh ==
    /\ start_time = None /\ end_time = None /\ time_interval = None /\ clip_fps = None
    /\ frame_list = <<>> /\ merged_frame_list = <<>>
    /\ pc = "init" /\ err = NoError /\ i = 0
    /\ written = {} /\ calls = [interp |-> <<>>, ffmpeg |-> <<>>]
    /\ loaded = <<>>

Init ==
    /\ \E sc \in Scenarios : video = sc[1] /\ gps_data = sc[2]
    /\ args \in Args
    /\ Fresh
    /\ files = <<>> /\ files1 = <<>> /\ run = 1
    /\ enc_in = <<>> /\ enc_out = <<>>

Raise(e) == pc' = "error" /\ err' = e

\* a slip: the comparison is strict, so an empty range is let through
EndBeforeStart_strict(st, et) == RLt(et, st)

\* self.end_time <= self.start_time
EndBeforeStart(st, et) == RLe(et, st)

\* a slip: the clamp on the time_interval path forgets to recompute time_interval
ResolveRate_stale(ti, cf, vfps) ==
    IF ti = None
    THEN [time_interval |-> RDiv(RI(1), RMin(cf, vfps)), clip_fps |-> RMin(cf, vfps)]
    ELSE [time_interval |-> ti, clip_fps |-> RMin(RDiv(RI(1), ti), vfps)]

\* the rate branches of _set_params, for a rate argument that is not zero
ResolveRate(ti, cf, vfps) ==
    IF ti = None
    THEN LET c == IF RLt(vfps, cf) THEN vfps ELSE cf
         IN  [time_interval |-> RDiv(RI(1), c), clip_fps |-> c]
    ELSE LET c == RDiv(RI(1), ti)
         IN  IF RLt(vfps, c)
             THEN [time_interval |-> RDiv(RI(1), vfps), clip_fps |-> vfps]
             ELSE [time_interval |-> ti, clip_fps |-> c]

_set_params ==
    /\ pc = "init"
    /\ LET st == IF args.start_time = None THEN RI(0) ELSE args.start_time
           et == IF args.end_time = None THEN video.total_duration ELSE args.end_time
           ti == args.time_interval
           cf == args.fps
       IN  /\ start_time' = st
           /\ end_time' = et
           /\ IF EndBeforeStart(st, et)
              THEN /\ Raise("ValueError: end_time must be greater than start_time.")
                   /\ UNCHANGED <<time_interval, clip_fps>>
              ELSE IF ti = None /\ cf = None
              THEN /\ Raise("ValueError: Either time_interval or fps must be set.")
                   /\ UNCHANGED <<time_interval, clip_fps>>
              ELSE IF (IF ti = None THEN cf ELSE ti) = RI(0)
              THEN /\ Raise("ZeroDivisionError")
                   /\ UNCHANGED <<time_interval, clip_fps>>
              ELSE /\ time_interval' = ResolveRate(ti, cf, video.fps).time_interval
                   /\ clip_fps' = ResolveRate(ti, cf, video.fps).clip_fps
                   /\ pc' = "configured"
                   /\ err' = err
    /\ UNCHANGED <<video, gps_data, args, frame_list, merged_frame_list, i, files,
                   written, calls, loaded, run, files1, enc_in, enc_out>>

\* a slip: the time stamp is taken from the clipped position before truncation
frame_time_stamp_pos(clipped, frame_num, fps) == to_timedelta(RDiv(clipped, fps))

\* pd.to_timedelta(frame_num_list / self.fps, unit = 's'), one element
frame_time_stamp(clipped, frame_num, fps) == to_timedelta(RDiv(RI(frame_num), fps))

\* the rows of self.frame_list
FrameRows(st, et, cfps, v) ==
    LET positions == arange(RMul(st, v.fps), RMul(et, v.fps), RDiv(v.fps, cfps))
    IN  [k \in 1..Len(positions) |->
            LET clipped == clip(positions[k], RI(0), RI(v.total_frames - 1))
                frame_num == int64(clipped)
            IN  [frame_num |-> frame_num,
                 time_stamp |-> frame_time_stamp(clipped, frame_num, v.fps)]]

_get_frame_list ==
    /\ pc = "configured"
    /\ frame_list' = FrameRows(start_time, end_time, clip_fps, video)
    /\ IF Len(frame_list') = 0
       THEN Raise("IndexError")
       ELSE pc' = "sampled" /\ err' = err
    /\ UNCHANGED <<video, gps_data, args, start_time, end_time, time_interval, clip_fps,
                   merged_frame_list, i, files, written, calls, loaded, run, files1,
                   enc_in, enc_out>>

\* the rows of self.merged_frame_list
MergedRows(rows, gps) ==
    [k \in 1..Len(rows) |->
        LET t == total_seconds(rows[k].time_stamp)
        IN  [frame_num |-> rows[k].frame_num, time_stamp |-> rows[k].time_stamp,
             lat |-> interp1d(Column(gps, "rel_time"), Column(gps, "lat"), t),
             lon |-> interp1d(Column(gps, "rel_time"), Column(gps, "lon"), t),
             ele |-> interp1d(Column(gps, "rel_time"), Column(gps, "ele"), t)]]

_merge_gnss2frame_list ==
    /\ pc = "sampled"
    /\ IF Len(gps_data) < 3
       THEN /\ Raise("ValueError: interp1d")
            /\ UNCHANGED <<merged_frame_list, calls>>
       ELSE /\ merged_frame_list' = MergedRows(frame_list, gps_data)
            /\ calls' = [calls EXCEPT !.interp =
                            [k \in 1..Len(frame_list) |->
                                total_seconds(frame_list[k].time_stamp)]]
            /\ pc' = "synced"
            /\ err' = err
    /\ UNCHANGED <<video, gps_data, args, start_time, end_time, time_interval, clip_fps,
                   frame_list, i, files, written, loaded, run, files1, enc_in, enc_out>>

-----------------------------------------------------------------------------
(* _extract_images: one iteration of its loop per step *)

\* f"{n:06d}": the decimal digits of n, zero-padded to six
Pad6(n) == [k \in 1..6 |-> (n \div (10 ^ (6 - k))) % 10]

\* a slip: the file is named after the list position instead of the frame
img_file_path_pos(pos, frame_num) == <<Stem, Pad6(pos), "jpeg">>

\* self.seq_image_dir / f"{self.mov_file_path.stem}_{frame_num:06d}.jpeg"
img_file_path(pos, frame_num) == <<Stem, Pad6(frame_num), "jpeg">>

\* the seek time handed to ffmpeg: ss = frame_num / self.fps
SeekTime(frame_num, fps) == RDiv(RI(frame_num), fps)

\* The metadata of the image ffmpeg writes is the extractor's own: modelled as
\* one 0th-IFD value naming the frame and one GPS-IFD tag outside the five.
FfmpegImage(frame_num) ==
    [zeroth |-> <<"frame", frame_num>>, GPS |-> [t \in {"GPSVersionID"} |-> <<2, 3, 0, 0>>]]

\* the directory with file `name` created or overwritten
WriteFile(dir, name, exif) ==
    [n \in (DOMAIN dir) \cup {name} |-> IF n = name THEN exif ELSE dir[n]]

\* a slip: a failed row is skipped and the loop goes on
AfterRow_besteffort(outcome, k, n) ==
    IF k = n THEN (IF outcome = "ok" THEN "done" ELSE "error") ELSE "extracting"

\* where convert() stands after row k of n: an exception ends it
AfterRow(outcome, k, n) ==
    IF outcome # "ok" THEN "error" ELSE IF k = n THEN "done" ELSE "extracting"

\* what each step of one iteration can end in
Outcomes == {"ok", "ffmpeg.Error", "piexif error"}

ExtractImage ==
    /\ pc \in {"synced", "extracting"}
    /\ i < Len(merged_frame_list)
    /\ \E outcome \in Outcomes :
        LET k == i + 1
            row == merged_frame_list[k]
            name == img_file_path(k, row.frame_num)
            image == FfmpegImage(row.frame_num)
        IN  /\ i' = k
            /\ calls' = [calls EXCEPT !.ffmpeg = Append(@,
                            [pos |-> k, frame_num |-> row.frame_num,
                             ss |-> SeekTime(row.frame_num, video.fps),
                             outcome |-> outcome])]
            /\ pc' = AfterRow(outcome, k, Len(merged_frame_list))
            /\ err' = IF outcome = "ok" THEN err ELSE outcome
            /\ CASE outcome = "ffmpeg.Error" ->
                        UNCHANGED <<files, written, loaded>>
                 [] outcome = "piexif error" ->
                        /\ files' = WriteFile(files, name, image)
                        /\ written' = written \cup {name}
                        /\ loaded' = loaded
                 [] outcome = "ok" ->
                        /\ files' = WriteFile(files, name,
                                        TagExif(image, row.lat, row.lon, row.ele))
                        /\ written' = written \cup {name}
                        /\ loaded' = <<image>>
    /\ UNCHANGED <<video, gps_data, args, start_time, end_time, time_interval, clip_fps,
                   frame_list, merged_frame_list, run, files1, enc_in, enc_out>>

\* the script is run a second time with the same inputs and output directory
Rerun ==
    /\ pc = "done"
    /\ run = 1
    /\ run' = 2
    /\ files1' = files
    /\ start_time' = None /\ end_time' = None /\ time_interval' = None /\ clip_fps' = None
    /\ frame_list' = <<>> /\ merged_frame_list' = <<>>
    /\ pc' = "init" /\ err' = NoError /\ i' = 0
    /\ written' = {} /\ calls' = [interp |-> <<>>, ffmpeg |-> <<>>]
    /\ loaded' = <<>>
    /\ UNCHANGED <<video, gps_data, args, files, enc_in, enc_out>>

Next ==
    \/ _set_params
    \/ _get_frame_list
    \/ _merge_gnss2frame_list
    \/ ExtractImage
    \/ Rerun

Spec == Init /\ [][Next]_vars

-----------------------------------------------------------------------------
(* The encoder on its own: every coordinate of a fixed-point grid is encoded *)

\* fractions of a degree: multiples of 1/2000 and of 1/1024
Fractions == {R(k, 2000) : k \in 0..1999} \cup {R(k, 1024) : k \in 0..1023}
Degrees == {0, 35} \cup {89 + k : k \in 0..(MaxDeg - 1)}
Magnitudes == {RAdd(RI(d), f) : d \in Degrees, f \in Fractions}
Coordinates == Magnitudes \cup {RSub(RI(0), m) : m \in Magnitudes}

InitEncode ==
    /\ video = Video2 /\ gps_data = TrackConst
    /\ args = [start_time |-> None, end_time |-> None, time_interval |-> None, fps |-> None]
    /\ Fresh
    /\ files = <<>> /\ files1 = <<>> /\ run = 1
    /\ \E v \in Coordinates :
            enc_in = <<[lat |-> v, lon |-> RSub(RI(0), v), ele |-> R(123456, 1000)]>>
    /\ enc_out = <<>>

Encode ==
    /\ Len(enc_in) = 1
    /\ Len(enc_out) = 0
    /\ enc_out' = <<GpsTags(enc_in[1].lat, enc_in[1].lon, enc_in[1].ele)>>
    /\ UNCHANGED <<video, gps_data, args, start_time, end_time, time_interval, clip_fps,
                   frame_list, merged_frame_list, pc, err, i, files, written, calls,
                   loaded, run, files1, enc_in>>

NextEncode == Encode

SpecEncode == InitEncode /\ [][NextEncode]_vars

-----------------------------------------------------------------------------
(* What the claims speak of *)

\* start_time, or 0 when None; end_time, or the video duration when None
ResolvedStart == IF args.start_time = None THEN RI(0) ELSE args.start_time
ResolvedEnd == IF args.end_time = None THEN video.total_duration ELSE args.end_time

\* the rate argument _set_params reads: time_interval wins over fps
RateGiven == args.time_interval # None \/ args.fps # None
RateArg == IF args.time_interval # None THEN args.time_interval ELSE args.fps
\* fps if time_interval is None, else 1 / time_interval
RequestedRate == IF args.time_interval = None THEN args.fps ELSE RDiv(RI(1), args.time_interval)

\* _set_params has returned / _get_frame_list has assigned self.frame_list
SetParamsDone == clip_fps # None
FrameListBuilt == SetParamsDone /\ pc \notin {"init", "configured"}

NothingSampled ==
    /\ frame_list = <<>> /\ merged_frame_list = <<>>
    /\ calls.interp = <<>> /\ calls.ffmpeg = <<>>
    /\ written = {} /\ i = 0

\* C1: when the resolved end_time is <= the resolved start_time, convert() ends
\* in the "end_time must be greater than start_time" ValueError whatever
\* time_interval and fps are, with no rate resolved, no frame list built and no
\* frame extracted or tagged.
C1_EmptyRangeIsConfigError ==
    RLe(ResolvedEnd, ResolvedStart) =>
        /\ pc \in {"init", "error"}
        /\ pc = "error" => err = "ValueError: end_time must be greater than start_time."
        /\ clip_fps = None /\ time_interval = None
        /\ NothingSampled
        /\ run = 1 => files = <<>>

C1_Witness ==
    /\ pc = "error"
    /\ RLe(ResolvedEnd, ResolvedStart)
    /\ args.end_time = None
    /\ args.time_interval = RI(0)

C3_FrameNumsSortedInRange ==
    /\ \A k \in 1..Len(frame_list) :
            0 <= frame_list[k].frame_num /\ frame_list[k].frame_num <= video.total_frames - 1
    /\ \A k \in 1..(Len(frame_list) - 1) :
            frame_list[k].frame_num <= frame_list[k + 1].frame_num

C3_Witness ==
    /\ pc = "sampled"
    /\ RLt(start_time, RI(0))
    /\ RLt(RI(video.total_frames), RMul(end_time, video.fps))
    /\ Len(frame_list) >= 4
    /\ frame_list[1].frame_num = frame_list[2].frame_num
    /\ frame_list[2].frame_num < frame_list[3].frame_num

\* C4: for every configuration _set_params accepts, the number of rows of the
\* frame list differs from floor((end_time - start_time) * clip_fps) by at
\* most 1.
C4_RowCountWithinOne ==
    FrameListBuilt =>
        LET expected == RFloor(RMul(RSub(end_time, start_time), clip_fps))
        IN  IAbs(Len(frame_list) - expected) <= 1

\* C5: with end_time > start_time and no rate argument that is positive (both
\* None, or the one read is zero or negative), _set_params ends in an error:
\* it never returns with a clip_fps <= 0 and nothing is sampled.
C5_NoPositiveRateIsConfigError ==
    (RLt(ResolvedStart, ResolvedEnd) /\ (~RateGiven \/ RLe(RateArg, RI(0)))) =>
        /\ pc \in {"init", "error"}
        /\ clip_fps = None
        /\ NothingSampled

\* the frame_num values of the merged frame list
FrameNums == {merged_frame_list[k].frame_num : k \in 1..Len(merged_frame_list)}

\* the number a sequence of decimal digits writes
RECURSIVE DigitsValue(_)
DigitsValue(ds) ==
    IF Len(ds) = 0 THEN 0 ELSE 10 * DigitsValue(SubSeq(ds, 1, Len(ds) - 1)) + ds[Len(ds)]

\* C6 as stated: after a successful convert the number of distinct files
\* written equals the number of rows of the merged frame list.
C6_OneFilePerRow ==
    pc = "done" => Cardinality(written) = Len(merged_frame_list)

\* C6 amended: after a successful convert the files written are exactly the
\* files <stem>_<frame_num as six digits>.jpeg of the frame_num values of the
\* merged frame list, all present in the output directory: one per distinct
\* frame_num, and one per row only when no frame_num repeats.
C6_OneFilePerFrameNum ==
    pc = "done" =>
        /\ \A n \in written :
                /\ n[1] = Stem /\ n[3] = "jpeg"
                /\ Len(n[2]) = 6
                /\ \A k \in 1..6 : n[2][k] \in 0..9
                /\ DigitsValue(n[2]) \in FrameNums
        /\ \A f \in FrameNums : \E n \in written : DigitsValue(n[2]) = f
        /\ Cardinality(written) = Cardinality(FrameNums)
        /\ written \subseteq DOMAIN files
        /\ (Cardinality(written) = Len(merged_frame_list)) <=>
                (\A j, k \in 1..Len(merged_frame_list) :
                    j # k => merged_frame_list[j].frame_num # merged_frame_list[k].frame_num)

C6_Witness ==
    /\ pc = "done"
    /\ Cardinality(written) >= 2
    /\ Cardinality(written) < Len(merged_frame_list)

\* (|v| - deg - min / 60) * 3600 * SecDen - sec: what the encoding leaves out of
\* |v|, in units of 1 / SecDen second
Residue(v, dms) ==
    RSub(RMul(RMul(RMul(RSub(RSub(RAbs(v), dms[1]), RDiv(dms[2], RI(60))),
                        RI(60)), RI(60)), RI(SecDen)),
         RI(dms[3][1]))

WellEncoded(v, dms) ==
    /\ dms[1][2] = 1 /\ dms[2][2] = 1 /\ dms[3][2] = 100000
    /\ RLe(dms[1], RAbs(v)) /\ RLt(RAbs(v), RAdd(dms[1], RI(1)))
    /\ 0 <= dms[2][1] /\ dms[2][1] <= 59
    /\ 0 <= dms[3][1] /\ dms[3][1] <= 5999999
    /\ RLe(RI(0), Residue(v, dms)) /\ RLt(Residue(v, dms), RI(1))

\* C7: latlon_to_rational(v) is [(deg, 1), (min, 1), (sec, 100000)] with
\* deg = trunc(|v|), 0 <= min <= 59, 0 <= sec <= 5999999, and
\* deg + min/60 + sec/(100000 * 3600) is <= |v| and less than
\* 1/(100000 * 3600) below it; v and -v encode alike, the sign going to the
\* hemisphere reference only (N / E when >= 0, S / W when < 0); 35.6895 is
\* 35, 41, 2220000/100000, N.
C7_DmsEncoding ==
    Len(enc_out) = 1 =>
        LET lat == enc_in[1].lat
            lon == enc_in[1].lon
            tags == enc_out[1]
        IN  /\ WellEncoded(lat, tags["GPSLatitude"])
            /\ WellEncoded(lon, tags["GPSLongitude"])
            /\ tags["GPSLatitudeRef"] = (IF lat[1] >= 0 THEN "N" ELSE "S")
            /\ tags["GPSLongitudeRef"] = (IF lon[1] >= 0 THEN "E" ELSE "W")
            /\ lon = RSub(RI(0), lat) => tags["GPSLongitude"] = tags["GPSLatitude"]
            /\ lat = R(356895, 10000) =>
                    /\ tags["GPSLatitude"] = <<<<35, 1>>, <<41, 1>>, <<2220000, 100000>>>>
                    /\ tags["GPSLatitudeRef"] = "N"

C7_Witness ==
    /\ Len(enc_out) = 1
    /\ enc_in[1].lat = R(356895, 10000)
    /\ enc_out[1]["GPSLatitude"][3][1] = 2220000
    /\ enc_out[1]["GPSLongitudeRef"] = "W"

\* the last iteration of the loop ran to its end
LastRowTagged ==
    /\ Len(calls.ffmpeg) > 0
    /\ calls.ffmpeg[Len(calls.ffmpeg)].outcome = "ok"

Successors(p) ==
    CASE p = "init" -> {"configured", "error"}
      [] p = "configured" -> {"sampled", "error"}
      [] p = "sampled" -> {"synced", "error"}
      [] p = "synced" -> {"extracting", "done", "error"}
      [] p = "extracting" -> {"extracting", "done", "error"}
      [] OTHER -> {}

\* the file of the row at list position k
RowFile(k) == img_file_path(k, merged_frame_list[k].frame_num)

\* C9, one step of convert(): the stage only moves forward along
\* configure -> sample -> synchronize -> extract, and nothing follows an error;
\* a row is extracted only once parameters, frame list and the whole merged
\* list are there, in list order, and only if every earlier row succeeded; a
\* row that fails ends the run, and the files of the earlier rows stay.
C9_Step ==
    /\ pc # "error"
    /\ run' = run => pc' \in Successors(pc)
    /\ files' # files => calls'.ffmpeg # calls.ffmpeg
    /\ calls'.ffmpeg # calls.ffmpeg /\ run' = run =>
        LET k == Len(calls'.ffmpeg)
        IN  /\ pc \in {"synced", "extracting"}
            /\ SetParamsDone
            /\ Len(frame_list) > 0
            /\ Len(merged_frame_list) = Len(frame_list)
            /\ Len(calls.interp) = Len(frame_list)
            /\ calls.ffmpeg = SubSeq(calls'.ffmpeg, 1, k - 1)
            /\ calls'.ffmpeg[k].pos = k
            /\ k <= Len(merged_frame_list)
            /\ \A j \in 1..(k - 1) : calls.ffmpeg[j].outcome = "ok"
            /\ calls'.ffmpeg[k].outcome # "ok" =>
                    /\ pc' = "error"
                    /\ \A n \in DOMAIN files : n \in DOMAIN files'
                    /\ \A n \in DOMAIN files : n # RowFile(k) => files'[n] = files[n]
                    /\ \A j \in 1..(k - 1) : RowFile(j) \in DOMAIN files'

C9_StagesForward == [][C9_Step]_vars

C9_Witness ==
    /\ pc = "error"
    /\ Len(calls.ffmpeg) = 3
    /\ Len(merged_frame_list) > 3
    /\ calls.ffmpeg[3].outcome = "piexif error"
    /\ Cardinality(DOMAIN files) = 3

\* frame_num / fps for the row at list position k
FrameTime(k) == R(frame_list[k].frame_num * video.fps[2], video.fps[1])

\* the float t is the Timedelta td read back in seconds
IsSecondsOf(t, td) ==
    /\ NsPerSec % t[2] = 0
    /\ RFloor(t) = td.sec
    /\ (t[1] - td.sec * t[2]) * (NsPerSec \div t[2]) = td.ns

\* the Timedelta td is less than one nanosecond away from the float x >= 0
WithinOneNs(td, x) ==
    LET whole == RFloor(x)
        ld == LongDivNs(x[1] - whole * x[2], x[2])
    IN  /\ td.sec - whole \in {0, 1}
        /\ 0 <= td.ns /\ td.ns < NsPerSec
        /\ LET ns == (td.sec - whole) * NsPerSec + td.ns
           IN  ns = ld.q \/ (ld.rem > 0 /\ ns = ld.q + 1)

\* the merged list extends the frame list row by row
MergedExtendsFrameList ==
    merged_frame_list # <<>> =>
        /\ Len(merged_frame_list) = Len(frame_list)
        /\ \A k \in 1..Len(frame_list) :
            /\ merged_frame_list[k].frame_num = frame_list[k].frame_num
            /\ merged_frame_list[k].time_stamp = frame_list[k].time_stamp

\* C10 as stated: the merged list has the rows of the frame list, in order,
\* and for every row the time the interpolants are evaluated at and the seek
\* time given to ffmpeg are the same value frame_num / fps.
C10_SameTime ==
    /\ MergedExtendsFrameList
    /\ \A k \in 1..Len(calls.interp) : calls.interp[k] = FrameTime(k)
    /\ \A j \in 1..Len(calls.ffmpeg) : calls.ffmpeg[j].ss = FrameTime(calls.ffmpeg[j].pos)

\* C10 amended: the merged list has the rows of the frame list, in order; the
\* seek time given to ffmpeg is frame_num / fps of the truncated frame index;
\* the time the interpolants are evaluated at is the row's time_stamp, which
\* is that same frame_num / fps in whole nanoseconds, less than one
\* nanosecond away from the seek time.
C10_SameTimeToTheNanosecond ==
    /\ MergedExtendsFrameList
    /\ \A k \in 1..Len(frame_list) : WithinOneNs(frame_list[k].time_stamp, FrameTime(k))
    /\ Len(calls.interp) \in {0, Len(frame_list)}
    /\ \A k \in 1..Len(calls.interp) :
            IsSecondsOf(calls.interp[k], merged_frame_list[k].time_stamp)
    /\ \A j \in 1..Len(calls.ffmpeg) :
            /\ calls.ffmpeg[j].pos = j
            /\ calls.ffmpeg[j].frame_num = merged_frame_list[j].frame_num
            /\ calls.ffmpeg[j].ss = FrameTime(j)

C10_Witness ==
    /\ pc = "done"
    /\ Len(merged_frame_list) >= 3
    /\ video.fps = RI(3) /\ clip_fps = RI(2)
    /\ merged_frame_list[2].frame_num = 1
    /\ calls.ffmpeg[2].ss = R(1, 3)
    /\ calls.interp[2] # calls.ffmpeg[2].ss

====
